---- MODULE Spec2Model ----
(***************************************************************************)
(* Model of update_springboot_structure.py: a linear script that, given a  *)
(* base package, creates the layered package directories under             *)
(* src/main/java and src/test/java plus the resource folders, and keeps a  *)
(* .gitkeep marker in every directory it processes exactly when that       *)
(* directory has no other entry.                                           *)
(*                                                                         *)
(* A path string is a sequence of tokens: a token is a name ("src",        *)
(* "controller") or a delimiter ("." or the separator "/").  The           *)
(* filesystem is a record [dirs, files] keyed by resolved paths, i.e.      *)
(* sequences of names relative to the invocation directory <<>>.           *)
(* The reserved name .gitkeep is only ever a regular file and namespaces   *)
(* have non-empty segments (spec, data model).                             *)
(***************************************************************************)
EXTENDS Integers, Sequences, FiniteSets, TLC

VARIABLES
    argv,         \* sys.argv
    fs,           \* the filesystem below the invocation directory
    fsStart,      \* the filesystem as the current invocation found it
    pc,           \* the statement of the script to execute next
    p_idx,        \* index into packages of the loop of STEP 5
    outcome,      \* "running", or how the invocation ended
    exit_status,  \* the exit status of the process once it has ended
    run,          \* which invocation on this tree is the current one
    procs         \* the two invocations of SpecConcurrent, one record each

vars == <<argv, fs, fsStart, pc, p_idx, outcome, exit_status, run, procs>>

-----------------------------------------------------------------------------
(* Bounds *)

\* longest namespace, in segments
MaxSegs == 2
\* number of successive invocations of the tool on the same tree
MaxRuns == 2

-----------------------------------------------------------------------------
(* Strings and paths *)

Sep == "/"

Dot == "."

GitkeepName == ".gitkeep"

DefaultLine == "# Spring Boot configuration file\n"

\* str.replace(old, new) on single-token delimiters
replace(s, old, new) == [i \in DOMAIN s |-> IF s[i] = old THEN new ELSE s[i]]

\* str.split(d): the maximal runs of tokens between occurrences of d
RECURSIVE split(_, _)
split(s, d) ==
    IF \A i \in DOMAIN s : s[i] # d
    THEN <<s>>
    ELSE LET k == CHOOSE i \in DOMAIN s : s[i] = d /\ \A j \in 1..(i-1) : s[j] # d
         IN  <<SubSeq(s, 1, k-1)>> \o split(SubSeq(s, k+1, Len(s)), d)

\* os.path.join of two components (posixpath.join): an absolute second
\* component discards the first, a separator is added unless already there
join2(a, b) ==
    IF b # <<>> /\ b[1] = Sep THEN b
    ELSE IF a = <<>> \/ a[Len(a)] = Sep THEN a \o b
    ELSE a \o <<Sep>> \o b

\* os.path.join(*parts)
RECURSIVE path_join(_)
path_join(parts) ==
    IF Len(parts) = 1 THEN parts[1]
    ELSE path_join(<<join2(parts[1], parts[2])>> \o SubSeq(parts, 3, Len(parts)))

\* The kernel's path walk: the names between separators, empty ones skipped;
\* an absolute path starts at the root, written as a leading Sep component.
Resolve(s) ==
    LET names == SelectSeq(s, LAMBDA t : t # Sep)
    IN  IF s # <<>> /\ s[1] = Sep THEN <<Sep>> \o names ELSE names

Parent(p) == SubSeq(p, 1, Len(p) - 1)

-----------------------------------------------------------------------------
(* Filesystem primitives.  Each returns [err, fs]; err = "none" on success. *)

Ok(f) == [err |-> "none", fs |-> f]

Fail(e, f) == [err |-> e, fs |-> f]

\* os.path.exists
os_path_exists(f, s) == Resolve(s) \in f.dirs \/ Resolve(s) \in DOMAIN f.files

\* os.mkdir on a resolved path
mkdir(f, p) ==
    IF p \in f.dirs \/ p \in DOMAIN f.files THEN Fail("FileExistsError", f)
    ELSE IF Parent(p) \in DOMAIN f.files THEN Fail("NotADirectoryError", f)
    ELSE IF Parent(p) \notin f.dirs THEN Fail("FileNotFoundError", f)
    ELSE Ok([f EXCEPT !.dirs = @ \cup {p}])

\* os.makedirs(name, exist_ok=False) on a resolved path: missing ancestors
\* first (a FileExistsError from them is swallowed), then mkdir of the leaf
RECURSIVE makedirs(_, _)
makedirs(f, p) ==
    LET head == Parent(p)
        up   == IF head # <<>> /\ ~(head \in f.dirs \/ head \in DOMAIN f.files)
                THEN makedirs(f, head) ELSE Ok(f)
    IN  IF up.err \notin {"none", "FileExistsError"} THEN up
        ELSE mkdir(up.fs, p)

os_makedirs(f, s) == makedirs(f, Resolve(s))

\* os.listdir: the names of the immediate entries, or an error
listdir_err(f, s) ==
    IF Resolve(s) \in f.dirs THEN "none"
    ELSE IF Resolve(s) \in DOMAIN f.files THEN "NotADirectoryError"
    ELSE "FileNotFoundError"

os_listdir(f, s) ==
    LET d == Resolve(s)
    IN  { q[Len(q)] : q \in { r \in f.dirs \cup DOMAIN f.files :
                                    Len(r) = Len(d) + 1 /\ Parent(r) = d } }

\* open(path, "x"): exclusive creation, which refuses an existing file
open_x(f, s, content) ==
    LET p == Resolve(s)
    IN  IF p \in f.dirs \/ p \in DOMAIN f.files THEN Fail("FileExistsError", f)
        ELSE IF Parent(p) \notin f.dirs THEN Fail("FileNotFoundError", f)
        ELSE Ok([f EXCEPT !.files =
                    [q \in DOMAIN f.files \cup {p} |->
                        IF q = p THEN content ELSE f.files[q]]])

\* open(path, "w") followed by writing content and closing
open_w(f, s, content) ==
    LET p == Resolve(s)
    IN  IF p \in f.dirs THEN Fail("IsADirectoryError", f)
        ELSE IF Parent(p) \in DOMAIN f.files THEN Fail("NotADirectoryError", f)
        ELSE IF Parent(p) \notin f.dirs THEN Fail("FileNotFoundError", f)
        ELSE Ok([f EXCEPT !.files =
                    [q \in DOMAIN f.files \cup {p} |->
                        IF q = p THEN content ELSE f.files[q]]])

\* os.remove
os_remove(f, s) ==
    LET p == Resolve(s)
    IN  IF p \in DOMAIN f.files
        THEN Ok([f EXCEPT !.files = [q \in DOMAIN f.files \ {p} |-> f.files[q]]])
        ELSE IF p \in f.dirs THEN Fail("IsADirectoryError", f)
        ELSE Fail("FileNotFoundError", f)

-----------------------------------------------------------------------------
(* The script's helper functions *)

\* handle_gitkeep without the filter on the listing: .gitkeep counts as a file
handle_gitkeep_unfiltered(f, directory) ==
    LET gitkeep == path_join(<<directory, <<GitkeepName>> >>)
        files   == os_listdir(f, directory)
    IN  IF listdir_err(f, directory) # "none"
        THEN Fail(listdir_err(f, directory), f)
        ELSE IF files = {}
        THEN IF ~os_path_exists(f, gitkeep) THEN open_w(f, gitkeep, "") ELSE Ok(f)
        ELSE IF os_path_exists(f, gitkeep) THEN os_remove(f, gitkeep) ELSE Ok(f)

\* handle_gitkeep without the else branch: a stale marker is never removed
handle_gitkeep_keeps(f, directory) ==
    LET gitkeep == path_join(<<directory, <<GitkeepName>> >>)
        files   == os_listdir(f, directory) \ {GitkeepName}
    IN  IF listdir_err(f, directory) # "none"
        THEN Fail(listdir_err(f, directory), f)
        ELSE IF files = {} /\ ~os_path_exists(f, gitkeep)
        THEN open_w(f, gitkeep, "")
        ELSE Ok(f)

\* handle_gitkeep that writes the marker into every directory it is given
handle_gitkeep_always(f, directory) ==
    LET gitkeep == path_join(<<directory, <<GitkeepName>> >>)
    IN  IF listdir_err(f, directory) # "none"
        THEN Fail(listdir_err(f, directory), f)
        ELSE open_w(f, gitkeep, "")

\* handle_gitkeep(directory)
handle_gitkeep(f, directory) ==
    LET gitkeep == path_join(<<directory, <<GitkeepName>> >>)
        files   == os_listdir(f, directory) \ {GitkeepName}
    IN  IF listdir_err(f, directory) # "none"
        THEN Fail(listdir_err(f, directory), f)
        ELSE IF files = {}
        THEN IF ~os_path_exists(f, gitkeep) THEN open_w(f, gitkeep, "") ELSE Ok(f)
        ELSE IF os_path_exists(f, gitkeep) THEN os_remove(f, gitkeep) ELSE Ok(f)

\* create_directory with handle_gitkeep in the else branch only: a directory
\* it has just created is not reconciled
create_directory_skips_new(f, path) ==
    IF ~os_path_exists(f, path) THEN os_makedirs(f, path)
    ELSE handle_gitkeep(f, path)

\* create_directory that reconciles the parent directory as well
create_directory_and_parent(f, path) ==
    LET made == IF ~os_path_exists(f, path) THEN os_makedirs(f, path) ELSE Ok(f)
        own  == IF made.err # "none" THEN made ELSE handle_gitkeep(made.fs, path)
    IN  IF own.err # "none" THEN own
        ELSE handle_gitkeep(own.fs, SubSeq(path, 1, Len(path) - 2))

\* create_directory(path)
create_directory(f, path) ==
    LET made == IF ~os_path_exists(f, path) THEN os_makedirs(f, path) ELSE Ok(f)
    IN  IF made.err # "none" THEN made ELSE handle_gitkeep(made.fs, path)

-----------------------------------------------------------------------------
(* Module-level configuration of the script *)

\* the package list with its last entry lost
packages_short ==
    << <<"controller">>, <<"service">>, <<"aspect">>, <<"repository">>,
       <<"model">>, <<"dto">>, <<"mapper">>, <<"config">>, <<"exception">>,
       <<"util">>, <<"factory">> >>

packages ==
    << <<"controller">>, <<"service">>, <<"aspect">>, <<"repository">>,
       <<"model">>, <<"dto">>, <<"mapper">>, <<"config">>, <<"exception">>,
       <<"util">>, <<"factory">>, <<"job">> >>

src_main_java == path_join(<< <<"src">>, <<"main">>, <<"java">> >>)

src_test_java == path_join(<< <<"src">>, <<"test">>, <<"java">> >>)

resources_dir == path_join(<< <<"src">>, <<"main">>, <<"resources">> >>)

\* base_package = sys.argv[1]
base_package(av) == av[2]

base_package_path(av) == replace(base_package(av), Dot, Sep)

full_base_main_path(av) == path_join(<<src_main_java, base_package_path(av)>>)

\* rel_path = os.path.join(*p.split('.'))
rel_path(p) == path_join(split(p, Dot))

main_path(av, i) ==
    path_join(<<src_main_java, base_package_path(av), rel_path(packages[i])>>)

test_path(av, i) ==
    path_join(<<src_test_java, base_package_path(av), rel_path(packages[i])>>)

static_path == path_join(<<resources_dir, <<"static">> >>)

templates_path == path_join(<<resources_dir, <<"templates">> >>)

application_properties == path_join(<<resources_dir, <<"application.properties">> >>)

-----------------------------------------------------------------------------
(* Initial trees *)

SegNames == <<"com", "example", "demo">>

\* the dotted namespace with n segments: com, com.example, ...
RECURSIVE Namespace(_)
Namespace(n) ==
    IF n = 1 THEN <<SegNames[1]>> ELSE Namespace(n - 1) \o <<Dot, SegNames[n]>>

Namespaces == { Namespace(n) : n \in 1..MaxSegs }

Script == <<"update_springboot_structure.py">>

\* sys.argv for zero, one or two command-line arguments
Argvs(ns) == { <<Script>>, <<Script, ns>>, <<Script, ns, <<"extra">> >> }

NTargets == 2 * Len(packages) + 2

\* the paths handed to create_directory, in processing order
TargetPath(av, k) ==
    IF k > 2 * Len(packages)
    THEN (IF k = 2 * Len(packages) + 1 THEN static_path ELSE templates_path)
    ELSE IF k % 2 = 1 THEN main_path(av, (k + 1) \div 2)
    ELSE test_path(av, k \div 2)

Prefixes(p) == { SubSeq(p, 1, k) : k \in 0..Len(p) }

EmptyFS == [dirs |-> {<<>>}, files |-> [q \in {} |-> ""]]

PutDir(f, p) == [f EXCEPT !.dirs = @ \cup Prefixes(p)]

PutFile(f, p, c) ==
    [dirs  |-> f.dirs \cup Prefixes(Parent(p)),
     files |-> [q \in DOMAIN f.files \cup {p} |-> IF q = p THEN c ELSE f.files[q]]]

NodeKinds == {"absent", "dir", "file"}

PutNode(f, p, kind) ==
    CASE kind = "absent" -> f
      [] kind = "dir"    -> PutDir(f, p)
      [] kind = "file"   -> PutFile(f, p, "")

\* a .gitkeep in directory d, when d is a directory of f
PutMarker(f, d) == IF d \in f.dirs THEN PutFile(f, d \o <<GitkeepName>>, "") ELSE f

\* what a target directory holds before the run
TargetKinds == {"file", "empty", "marker", "other", "both"}

OtherName == "App.java"

Populate(f, t, kind) ==
    IF Parent(t) \notin f.dirs THEN f
    ELSE CASE kind = "file"   -> PutFile(f, t, "")
           [] kind = "empty"  -> PutDir(f, t)
           [] kind = "marker" -> PutMarker(PutDir(f, t), t)
           [] kind = "other"  -> PutFile(PutDir(f, t), t \o <<OtherName>>, "class")
           [] kind = "both"   ->
                PutFile(PutMarker(PutDir(f, t), t), t \o <<OtherName>>, "class")

RECURSIVE PopulateAll(_, _, _, _, _)
PopulateAll(f, av, sel, kind, k) ==
    IF k > NTargets THEN f
    ELSE PopulateAll(IF k \in sel THEN Populate(f, Resolve(TargetPath(av, k)), kind)
                     ELSE f, av, sel, kind, k + 1)

\* none, any single one, or all of the targets already there
Selections == {{}} \cup { {k} : k \in 1..NTargets } \cup {1..NTargets}

AppKinds == {"absent", "default", "custom"}

DocsDir == <<"docs">>

InitialTree(ns, main, test, res, app, markers, sel, kind) ==
    LET av    == <<Script, ns>>
        mainB == Resolve(full_base_main_path(av))
        testB == Resolve(path_join(<<src_test_java, base_package_path(av)>>))
        resD  == Resolve(resources_dir)
        f1    == PutNode(PutNode(PutNode(PutDir(EmptyFS, DocsDir),
                         mainB, main), testB, test), resD, res)
        f2    == IF markers
                 THEN PutMarker(PutMarker(PutMarker(PutMarker(f1, mainB), testB),
                                          resD), DocsDir)
                 ELSE f1
        f3    == IF resD \in f2.dirs /\ app # "absent"
                 THEN PutFile(f2, Resolve(application_properties),
                              IF app = "default" THEN DefaultLine ELSE "server.port=1")
                 ELSE f2
    IN  PopulateAll(f3, av, sel, kind, 1)

\* every combination of the surroundings with none or all of the targets
\* already there, and every single pre-existing target in a project that has
\* the main base package only or the test base package and resources too
InitialTrees(ns) ==
    { InitialTree(ns, main, test, res, app, markers, sel, kind) :
        main \in NodeKinds, test \in NodeKinds, res \in NodeKinds,
        app \in AppKinds, markers \in BOOLEAN, sel \in {{}, 1..NTargets},
        kind \in TargetKinds }
    \cup
    { InitialTree(ns, "dir", rest, rest, "absent", TRUE, sel, kind) :
        rest \in {"absent", "dir"}, sel \in Selections, kind \in TargetKinds }

Running == -1

Init ==
    /\ \E ns \in Namespaces :
         /\ argv \in Argvs(ns)
         /\ fs \in InitialTrees(ns)
    /\ fsStart = fs
    /\ pc = "parse_args"
    /\ p_idx = 1
    /\ outcome = "running"
    /\ exit_status = Running
    /\ run = 1
    /\ procs = <<>>

-----------------------------------------------------------------------------
(* One invocation, statement by statement *)

\* sys.exit(1) before any work
Exit1(why) ==
    /\ outcome' = why
    /\ exit_status' = 1
    /\ UNCHANGED <<argv, fs, fsStart, pc, p_idx, run, procs>>

\* an uncaught OSError: traceback, interpreter exits with status 1
Crash ==
    /\ outcome' = "crashed"
    /\ exit_status' = 1
    /\ UNCHANGED <<argv, fs, fsStart, pc, p_idx, run, procs>>

ParseArgs ==
    /\ outcome = "running" /\ pc = "parse_args"
    /\ IF Len(argv) # 2 THEN Exit1("usage")
       ELSE /\ pc' = "check_base"
            /\ UNCHANGED <<argv, fs, fsStart, p_idx, outcome, exit_status, run, procs>>

\* the base package check replaced by creating the missing directory
CheckBase_creates ==
    /\ outcome = "running" /\ pc = "check_base"
    /\ fs' = IF ~os_path_exists(fs, full_base_main_path(argv))
             THEN os_makedirs(fs, full_base_main_path(argv)).fs ELSE fs
    /\ pc' = "loop_main"
    /\ p_idx' = 1
    /\ UNCHANGED <<argv, fsStart, outcome, exit_status, run, procs>>

CheckBase ==
    /\ outcome = "running" /\ pc = "check_base"
    /\ IF ~os_path_exists(fs, full_base_main_path(argv)) THEN Exit1("no_base")
       ELSE /\ pc' = "loop_main"
            /\ p_idx' = 1
            /\ UNCHANGED <<argv, fs, fsStart, outcome, exit_status, run, procs>>

\* the call wrapped in try/except OSError: a failing target is skipped
Synchronize_continues(path, next_pc, next_idx) ==
    LET r == create_directory(fs, path)
    IN  /\ fs' = r.fs
        /\ pc' = next_pc
        /\ p_idx' = next_idx
        /\ UNCHANGED <<argv, fsStart, outcome, exit_status, run, procs>>

\* one create_directory call of the driver: on success continue at next
Synchronize(path, next_pc, next_idx) ==
    LET r == create_directory(fs, path)
    IN  IF r.err # "none" THEN Crash
        ELSE /\ fs' = r.fs
             /\ pc' = next_pc
             /\ p_idx' = next_idx
             /\ UNCHANGED <<argv, fsStart, outcome, exit_status, run, procs>>

LoopMain ==
    /\ outcome = "running" /\ pc = "loop_main"
    /\ Synchronize(main_path(argv, p_idx), "loop_test", p_idx)

LoopTest ==
    /\ outcome = "running" /\ pc = "loop_test"
    /\ IF p_idx < Len(packages)
       THEN Synchronize(test_path(argv, p_idx), "loop_main", p_idx + 1)
       ELSE Synchronize(test_path(argv, p_idx), "static", p_idx)

Static ==
    /\ outcome = "running" /\ pc = "static"
    /\ Synchronize(static_path, "templates", p_idx)

Templates ==
    /\ outcome = "running" /\ pc = "templates"
    /\ Synchronize(templates_path, "app_props", p_idx)

\* the default configuration written without the existence test
write_default_always(f) == open_w(f, application_properties, DefaultLine)

\* the application.properties step and the closing message
write_default(f) ==
    IF ~os_path_exists(f, application_properties)
    THEN open_w(f, application_properties, DefaultLine)
    ELSE Ok(f)

AppProps ==
    /\ outcome = "running" /\ pc = "app_props"
    /\ LET r == write_default(fs)
       IN  IF r.err # "none" THEN Crash
           ELSE /\ fs' = r.fs
                /\ outcome' = "done"
                /\ exit_status' = 0
                /\ UNCHANGED <<argv, fsStart, pc, p_idx, run, procs>>

\* the tool is invoked again, with the same arguments, on the tree it left
Rerun ==
    /\ outcome = "done" /\ run < MaxRuns
    /\ run' = run + 1
    /\ fsStart' = fs
    /\ pc' = "parse_args"
    /\ p_idx' = 1
    /\ outcome' = "running"
    /\ exit_status' = Running
    /\ UNCHANGED <<argv, fs, procs>>

Next ==
    \/ ParseArgs
    \/ CheckBase
    \/ LoopMain
    \/ LoopTest
    \/ Static
    \/ Templates
    \/ AppProps
    \/ Rerun

Spec == Init /\ [][Next]_vars

-----------------------------------------------------------------------------
(* Vocabulary of the properties, stated on the tree itself *)

PackageNames ==
    {"controller", "service", "aspect", "repository", "model", "dto",
     "mapper", "config", "exception", "util", "factory", "job"}

ResourcesDir == <<"src", "main", "resources">>

AppFile == ResourcesDir \o <<"application.properties">>

\* the namespace given on the command line, as directory names
NsSegs == SelectSeq(argv[2], LAMBDA t : t # Dot)

BaseDir(root) == <<"src", root, "java">> \o NsSegs

\* the directories the tool is to synchronize
TargetDirs ==
    IF Len(argv) # 2 THEN {}
    ELSE { BaseDir(root) \o <<n>> : root \in {"main", "test"}, n \in PackageNames }
         \cup { ResourcesDir \o <<"static">>, ResourcesDir \o <<"templates">> }

Nodes(f) == f.dirs \cup DOMAIN f.files

Entry(f, q) ==
    IF q \in f.dirs THEN <<"dir">>
    ELSE IF q \in DOMAIN f.files THEN <<"file", f.files[q]>>
    ELSE <<"absent">>

Children(f, d) == { q \in Nodes(f) : Len(q) = Len(d) + 1 /\ Parent(q) = d }

Marker(d) == d \o <<GitkeepName>>

HasMarker(f, d) == Marker(d) \in Nodes(f)

Others(f, d) == Children(f, d) \ {Marker(d)}

Reconciled(f, d) == d \in f.dirs /\ (HasMarker(f, d) <=> Others(f, d) = {})

IsUnder(d, q) == Len(q) >= Len(d) /\ SubSeq(q, 1, Len(d)) = d

\* d and everything below it is as it was when the run started
Untouched(d) ==
    \A q \in Nodes(fs) \cup Nodes(fsStart) :
        IsUnder(d, q) => Entry(fs, q) = Entry(fsStart, q)

Terminated == outcome # "running"

BaseExistedAtStart ==
    Len(argv) = 2 /\ BaseDir("main") \in Nodes(fsStart)

\* position in the processing order of the statement at pc (27 = the
\* application.properties step)
Pos ==
    CASE pc = "loop_main" -> 2 * p_idx - 1
      [] pc = "loop_test" -> 2 * p_idx
      [] pc = "static"    -> NTargets - 1
      [] pc = "templates" -> NTargets
      [] pc = "app_props" -> NTargets + 1
      [] OTHER            -> 0

-----------------------------------------------------------------------------
(* C1: after a run that completes, every directory passed to              *)
(* create_directory holds the .gitkeep marker if and only if it has no    *)
(* other entry.                                                            *)
C1_MarkerIffEmpty ==
    outcome = "done" => \A d \in TargetDirs : Reconciled(fs, d)

\* a completed first run that removed a stale marker from one target and
\* gave a marker to a target it created
C1_Witness ==
    /\ outcome = "done" /\ run = 1
    /\ \E d \in TargetDirs :
         HasMarker(fsStart, d) /\ Others(fs, d) # {} /\ ~HasMarker(fs, d)
    /\ \E d \in TargetDirs : d \notin fsStart.dirs /\ HasMarker(fs, d)

(* C2: a second run with the same namespace, started on the tree the first *)
(* run left, completes and leaves the tree identical.                      *)
C2_Idempotent ==
    (run > 1 /\ Terminated) => (outcome = "done" /\ fs = fsStart)

C2_Witness ==
    /\ run = 2 /\ outcome = "done"
    /\ AppFile \in DOMAIN fs.files
    /\ \E d \in TargetDirs : HasMarker(fs, d)
    /\ \E d \in TargetDirs : Others(fs, d) # {}

(* C3: with a wrong argument count, or a namespace whose directory under   *)
(* src/main/java is missing, the run never gets past the checks, exits     *)
(* with status 1 and leaves the tree as it found it.                       *)
C3_RejectedRunTouchesNothing ==
    ~BaseExistedAtStart =>
        /\ fs = fsStart
        /\ pc \in {"parse_args", "check_base"}
        /\ (Len(argv) # 2 => pc = "parse_args")
        /\ Terminated => (exit_status = 1 /\ outcome \in {"usage", "no_base"})

\* the base package is missing while the test tree and resources are there
C3_Witness ==
    /\ outcome = "no_base" /\ exit_status = 1
    /\ ResourcesDir \in fs.dirs
    /\ BaseDir("test") \in fs.dirs

(* C4: when the base package exists under src/main/java and no filesystem  *)
(* error occurs, the run ends with status 0 and all 12 package directories *)
(* exist under both roots, as do static, templates and                     *)
(* application.properties.                                                 *)
C4_StructureComplete ==
    (Terminated /\ BaseExistedAtStart /\ outcome # "crashed") =>
        /\ outcome = "done" /\ exit_status = 0
        /\ Cardinality(TargetDirs) = 26
        /\ TargetDirs \subseteq fs.dirs
        /\ AppFile \in Nodes(fs)

\* a completed run that started without src/test and src/main/resources
C4_Witness ==
    /\ outcome = "done" /\ run = 1
    /\ <<"src", "test">> \notin Nodes(fsStart)
    /\ ResourcesDir \notin Nodes(fsStart)
    /\ TargetDirs \subseteq fs.dirs

\* the directories that did not exist when the run started
NewDirs == fs.dirs \ fsStart.dirs

(* C5 as claimed: after a run that completes, every directory that did not *)
(* exist at the start and exists at the end contains exactly the marker    *)
(* file and no other entry.                                                *)
C5_Original ==
    outcome = "done" => \A d \in NewDirs : Children(fs, d) = {Marker(d)}

(* C5 amended: after a run that completes, every newly created directory   *)
(* that was passed to create_directory contains exactly the marker file;   *)
(* the other new directories are ancestors of such directories, created by *)
(* makedirs on the way, and hold no marker.                                *)
C5_NewTargetsHoldOnlyMarker ==
    outcome = "done" =>
        \A d \in NewDirs :
            IF d \in TargetDirs
            THEN Children(fs, d) = {Marker(d)} /\ Marker(d) \in DOMAIN fs.files
            ELSE /\ ~HasMarker(fs, d)
                 /\ \E t \in TargetDirs : IsUnder(d, t) /\ t # d

\* a completed run that created targets and, on the way, src/main/resources
C5_Witness ==
    /\ outcome = "done" /\ run = 1
    /\ ResourcesDir \in NewDirs
    /\ BaseDir("test") \in NewDirs
    /\ \E d \in TargetDirs : d \in NewDirs /\ Children(fs, d) = {Marker(d)}

(* C6: application.properties is written only when it is absent: a run     *)
(* that reaches the step without it creates it with the fixed default      *)
(* line, and a file already there keeps its content, whatever it is.       *)
C6_ConfigWrittenOnlyWhenAbsent ==
    /\ AppFile \in Nodes(fsStart) => Entry(fs, AppFile) = Entry(fsStart, AppFile)
    /\ (AppFile \notin Nodes(fsStart) /\ AppFile \in Nodes(fs)) =>
            (outcome = "done" /\ Entry(fs, AppFile) = <<"file", DefaultLine>>)
    /\ outcome = "done" => AppFile \in Nodes(fs)

\* a first run completed over a configuration file with content of its own
C6_Witness ==
    /\ outcome = "done" /\ run = 1
    /\ Entry(fsStart, AppFile) = <<"file", "server.port=1">>
    /\ Entry(fs, AppFile) = <<"file", "server.port=1">>

\* the directory the statement at pc hands to create_directory
CurrentTarget == Resolve(TargetPath(argv, Pos))

AtTarget == outcome = "running" /\ Pos \in 1..NTargets

(* C7: reconciling a directory that has at least one non-marker entry      *)
(* removes the marker if it is there and changes nothing else, in that     *)
(* directory or anywhere in the tree.                                      *)
C7_ReconcileNonEmpty ==
    [][ (AtTarget /\ CurrentTarget \in fs.dirs /\ Others(fs, CurrentTarget) # {}) =>
            /\ outcome' = "running"
            /\ ~HasMarker(fs', CurrentTarget)
            /\ \A q \in Nodes(fs) \cup Nodes(fs') :
                    q # Marker(CurrentTarget) => Entry(fs', q) = Entry(fs, q)
      ]_vars

\* the first main target had a marker next to a source file; the step is
\* over, the marker is gone and the source file is still there
C7_Witness ==
    /\ pc = "loop_test" /\ p_idx = 1 /\ run = 1 /\ outcome = "running"
    /\ LET d == BaseDir("main") \o <<"controller">>
       IN  /\ HasMarker(fsStart, d) /\ Others(fsStart, d) # {}
           /\ ~HasMarker(fs, d) /\ Others(fs, d) = Others(fsStart, d)

(* C8: the tool never deletes a directory, and the marker state of every   *)
(* directory that is not passed to create_directory (base packages,        *)
(* ancestors made by makedirs, src/main/resources, unrelated directories)  *)
(* stays what it was, also when the run adds entries to that directory.    *)
C8_OnlyTargetsReconciled ==
    /\ fsStart.dirs \subseteq fs.dirs
    /\ \A d \in fs.dirs \ TargetDirs : HasMarker(fs, d) <=> HasMarker(fsStart, d)

\* the test base package kept its marker although the run filled it, and
\* the new src/main/resources got none
C8_Witness ==
    /\ outcome = "done" /\ run = 1
    /\ HasMarker(fsStart, BaseDir("test")) /\ HasMarker(fs, BaseDir("test"))
    /\ Children(fsStart, BaseDir("test")) # Children(fs, BaseDir("test"))
    /\ HasMarker(fs, DocsDir)
    /\ ResourcesDir \in NewDirs /\ ~HasMarker(fs, ResourcesDir)

(* C9: a target that cannot be created or reconciled aborts the run there  *)
(* with a non-zero status: every earlier target is a reconciled directory, *)
(* no later target and no application.properties has been touched.         *)
C9_AbortAtFailingTarget ==
    Pos > 0 =>
        /\ \A k \in 1..NTargets :
                k < Pos => Reconciled(fs, Resolve(TargetPath(argv, k)))
        /\ outcome = "crashed" =>
              /\ exit_status > 0
              /\ Pos <= NTargets
              /\ create_directory(fs, TargetPath(argv, Pos)).err # "none"
              /\ \A k \in 1..NTargets :
                    k > Pos => Untouched(Resolve(TargetPath(argv, k)))
              /\ Untouched(AppFile)

\* the run died at a target in the middle of the list, which is a regular
\* file, after it had created the targets before it
C9_Witness ==
    /\ outcome = "crashed" /\ exit_status = 1 /\ run = 1
    /\ Pos > 2 /\ Pos < NTargets - 2
    /\ CurrentTarget \in DOMAIN fs.files
    /\ \E k \in 1..NTargets :
         k < Pos /\ Resolve(TargetPath(argv, k)) \in NewDirs

-----------------------------------------------------------------------------
(* Two invocations on the same tree.  Each system call of an invocation is *)
(* one step, so the other invocation may act between a check and the       *)
(* action that relies on it.  os.makedirs is one step: the races among its *)
(* own mkdir calls on ancestors are swallowed by makedirs itself and only  *)
(* the mkdir of the leaf can raise FileExistsError.                        *)

Procs == {1, 2}

\* an invocation that has not started: k is the position of its current
\* target in the processing order, files the listing handle_gitkeep took
Fresh == [pc |-> "parse_args", k |-> 1, files |-> {}, status |-> "running",
          exit_status |-> Running, err |-> "none"]

\* trees on which one invocation alone runs to completion
ConcurrentTrees(ns) ==
    { InitialTree(ns, "dir", rest, rest, "absent", FALSE, sel, kind) :
        rest \in {"absent", "dir"}, sel \in {{}, 1..NTargets},
        kind \in {"marker", "both"} }

InitConcurrent ==
    /\ \E ns \in Namespaces :
         /\ argv = <<Script, ns>>
         /\ fs \in ConcurrentTrees(ns)
    /\ fsStart = fs
    /\ procs = [p \in Procs |-> Fresh]
    /\ pc = "concurrent"
    /\ p_idx = 1
    /\ outcome = "running"
    /\ exit_status = Running
    /\ run = 1

SeqVars == <<argv, fsStart, pc, p_idx, outcome, exit_status, run>>

At(p, label) == procs[p].status = "running" /\ procs[p].pc = label

Goto(p, label) == procs' = [procs EXCEPT ![p].pc = label]

\* an uncaught exception in invocation p
Raise(p, e) ==
    /\ procs' = [procs EXCEPT ![p].status = "crashed", ![p].err = e,
                              ![p].exit_status = 1]
    /\ UNCHANGED fs

\* sys.exit(1) in invocation p
SysExit1(p) ==
    /\ procs' = [procs EXCEPT ![p].status = "exited", ![p].exit_status = 1]
    /\ UNCHANGED fs

\* handle_gitkeep has returned: on to the next create_directory call, or to
\* the application.properties step after the last one
NextTarget(p) ==
    procs' = [procs EXCEPT ![p].pc = IF procs[p].k < NTargets
                                     THEN "cd_exists" ELSE "ap_exists",
                           ![p].k = IF procs[p].k < NTargets
                                    THEN procs[p].k + 1 ELSE procs[p].k]

PParseArgs(p) ==
    /\ At(p, "parse_args")
    /\ IF Len(argv) # 2 THEN SysExit1(p)
       ELSE Goto(p, "check_base") /\ UNCHANGED fs
    /\ UNCHANGED SeqVars

PCheckBase(p) ==
    /\ At(p, "check_base")
    /\ IF ~os_path_exists(fs, full_base_main_path(argv)) THEN SysExit1(p)
       ELSE Goto(p, "cd_exists") /\ UNCHANGED fs
    /\ UNCHANGED SeqVars

\* create_directory: if not os.path.exists(path)
CdExists(p) ==
    /\ At(p, "cd_exists")
    /\ IF ~os_path_exists(fs, TargetPath(argv, procs[p].k))
       THEN Goto(p, "cd_makedirs")
       ELSE Goto(p, "hg_listdir")
    /\ UNCHANGED fs
    /\ UNCHANGED SeqVars

\* create_directory: os.makedirs(path)
CdMakedirs(p) ==
    /\ At(p, "cd_makedirs")
    /\ LET r == os_makedirs(fs, TargetPath(argv, procs[p].k))
       IN  IF r.err # "none" THEN Raise(p, r.err)
           ELSE fs' = r.fs /\ Goto(p, "hg_listdir")
    /\ UNCHANGED SeqVars

\* handle_gitkeep: files = [f for f in os.listdir(directory) if f != ".gitkeep"]
HgListdir(p) ==
    /\ At(p, "hg_listdir")
    /\ LET d == TargetPath(argv, procs[p].k)
       IN  IF listdir_err(fs, d) # "none" THEN Raise(p, listdir_err(fs, d))
           ELSE /\ procs' = [procs EXCEPT ![p].pc = "hg_exists",
                                          ![p].files = os_listdir(fs, d) \ {GitkeepName}]
                /\ UNCHANGED fs
    /\ UNCHANGED SeqVars

\* handle_gitkeep: the os.path.exists(gitkeep) test of the branch taken
HgExists(p) ==
    /\ At(p, "hg_exists")
    /\ LET gitkeep == path_join(<<TargetPath(argv, procs[p].k), <<GitkeepName>> >>)
       IN  IF procs[p].files = {}
           THEN IF ~os_path_exists(fs, gitkeep) THEN Goto(p, "hg_create")
                ELSE NextTarget(p)
           ELSE IF os_path_exists(fs, gitkeep) THEN Goto(p, "hg_remove")
                ELSE NextTarget(p)
    /\ UNCHANGED fs
    /\ UNCHANGED SeqVars

\* handle_gitkeep: with open(gitkeep, "w")
HgCreate(p) ==
    /\ At(p, "hg_create")
    /\ LET gitkeep == path_join(<<TargetPath(argv, procs[p].k), <<GitkeepName>> >>)
           r       == open_w(fs, gitkeep, "")
       IN  IF r.err # "none" THEN Raise(p, r.err)
           ELSE fs' = r.fs /\ NextTarget(p)
    /\ UNCHANGED SeqVars

\* handle_gitkeep: os.remove(gitkeep)
HgRemove(p) ==
    /\ At(p, "hg_remove")
    /\ LET gitkeep == path_join(<<TargetPath(argv, procs[p].k), <<GitkeepName>> >>)
           r       == os_remove(fs, gitkeep)
       IN  IF r.err # "none" THEN Raise(p, r.err)
           ELSE fs' = r.fs /\ NextTarget(p)
    /\ UNCHANGED SeqVars

PFinish(p) ==
    procs' = [procs EXCEPT ![p].status = "done", ![p].exit_status = 0]

\* if not os.path.exists(application_properties)
ApExists(p) ==
    /\ At(p, "ap_exists")
    /\ IF ~os_path_exists(fs, application_properties) THEN Goto(p, "ap_write")
       ELSE PFinish(p)
    /\ UNCHANGED fs
    /\ UNCHANGED SeqVars

\* with open(application_properties, "w") as f: f.write(...)
ApWrite(p) ==
    /\ At(p, "ap_write")
    /\ LET r == open_w(fs, application_properties, DefaultLine)
       IN  IF r.err # "none" THEN Raise(p, r.err)
           ELSE fs' = r.fs /\ PFinish(p)
    /\ UNCHANGED SeqVars

NextConcurrent ==
    \E p \in Procs :
        \/ PParseArgs(p)
        \/ PCheckBase(p)
        \/ CdExists(p)
        \/ CdMakedirs(p)
        \/ HgListdir(p)
        \/ HgExists(p)
        \/ HgCreate(p)
        \/ HgRemove(p)
        \/ ApExists(p)
        \/ ApWrite(p)

SpecConcurrent == InitConcurrent /\ [][NextConcurrent]_vars

-----------------------------------------------------------------------------
Crashed(p) == procs[p].status = "crashed"

AllEnded == \A p \in Procs : procs[p].status # "running"

\* the directory invocation p is working on
TargetOf(p) == Resolve(TargetPath(argv, procs[p].k))

(* C10 as claimed: when two identical invocations run concurrently with    *)
(* their system calls interleaved arbitrarily, neither invocation crashes. *)
C10_Original == \A p \in Procs : ~Crashed(p)

(* C10 amended: of two concurrent invocations on a tree on which one alone *)
(* completes, at most one crashes, and only in os.makedirs with            *)
(* FileExistsError on a target the other created after the existence check *)
(* or in os.remove with FileNotFoundError on a marker the other removed    *)
(* after the check; creating a marker or application.properties the other  *)
(* already created succeeds.  The other invocation ends with status 0 and  *)
(* every target ends as a reconciled directory.                            *)
C10_RacesCrashOnlyOne ==
    /\ \E p \in Procs : ~Crashed(p)
    /\ \A p \in Procs :
         /\ Crashed(p) =>
              /\ procs[p].exit_status = 1
              /\ \/ /\ procs[p].pc = "cd_makedirs"
                    /\ procs[p].err = "FileExistsError"
                    /\ TargetOf(p) \in fs.dirs \ fsStart.dirs
                 \/ /\ procs[p].pc = "hg_remove"
                    /\ procs[p].err = "FileNotFoundError"
                    /\ HasMarker(fsStart, TargetOf(p)) /\ ~HasMarker(fs, TargetOf(p))
         /\ procs[p].status \in {"running", "crashed", "done"}
         /\ procs[p].status = "done" => procs[p].exit_status = 0
    /\ AllEnded =>
         /\ \E p \in Procs : procs[p].status = "done"
         /\ \A d \in TargetDirs : Reconciled(fs, d)
         /\ Entry(fs, AppFile) = <<"file", DefaultLine>>

\* one invocation died in os.makedirs on a directory the other had just
\* created, and the other ran to completion
C10_Witness ==
    /\ AllEnded
    /\ \E p, q \in Procs :
         /\ Crashed(p) /\ procs[p].pc = "cd_makedirs"
         /\ procs[q].status = "done"

====
